---- MODULE Spec2Model ----
(***************************************************************************)
(* get_github_code_files (src/githubauth.py): breadth-first traversal of a *)
(* repository's contents API, collecting path -> text for every file.      *)
(*                                                                         *)
(* Texts (file contents, base64 strings, response texts) are sequences of  *)
(* code points.  Paths are sequences of tokens, "/" being the separator.   *)
(* A mapping (dict) is a function whose domain is its key set.             *)
(***************************************************************************)
EXTENDS Integers, Sequences, FiniteSets, TLC

VARIABLES
    pc,          \* "loop" | "items" | "done" | "aborted" | "raised"
    queue,       \* deque of pending paths
    code_files,  \* the result mapping under construction
    current_path,\* the path popped last
    items,       \* the entries of the current listing not processed yet
    ret,         \* the mapping returned to the caller (when pc is done/aborted)
    tree,        \* the repository behind the remote API
    start,       \* the `path` argument as given by the caller
    stable,      \* the remote answers a repeated request as it did before
    memo,        \* the answers given so far (kept when stable)
    log,         \* the steps of this run, oldest first
    reported,    \* <<path, type>> of every entry the listings of this run held
    everQueued,  \* every path that has been in the queue in this run
    run,         \* 1 for the first call, 2 for the repeated call
    ret1         \* outcome of the first call, once a second one has begun

vars == <<pc, queue, code_files, current_path, items, ret, tree, start,
          stable, memo, log, reported, everQueued, run, ret1>>

\* Cap on the listing requests of one run (a remote may report cycles).
MaxListings == 5

\* Cap on the listing answers of one run that are not the repository's own.
MaxFaults == 1

----------------------------------------------------------------------------
(* Text helpers *)

Hello == <<104, 101, 108, 108, 111>>
World == <<119, 111, 114, 108, 100>>
EAcute == <<233>>
EAcuteLatin1 == <<195, 169>>

B64Hello == <<97, 71, 86, 115, 98, 71, 56, 61, 10>>   \* "aGVsbG8=\n"
B64EAcute == <<119, 54, 107, 61>>                     \* "w6k="
B64BadPadding == <<97, 71, 107>>                      \* "aGk"
B64BadUtf8 == <<47, 119, 61, 61>>                     \* "/w==" -> byte 0xFF
B64NonAscii == <<97, 233>>                            \* "aé"

\* path.strip('/')
RECURSIVE LStrip(_)
LStrip(p) == IF p # <<>> /\ Head(p) = "/" THEN LStrip(Tail(p)) ELSE p

RECURSIVE RStrip(_)
RStrip(p) ==
    IF p # <<>> /\ p[Len(p)] = "/" THEN RStrip(SubSeq(p, 1, Len(p) - 1)) ELSE p

Strip(p) == RStrip(LStrip(p))

\* B64Index with the lower-case letters placed at 0 instead of 26
B64IndexLowerAtZero(c) ==
    IF c >= 65 /\ c <= 90 THEN c - 65
    ELSE IF c >= 97 /\ c <= 122 THEN c - 97
    ELSE IF c >= 48 /\ c <= 57 THEN c + 4
    ELSE IF c = 43 THEN 62
    ELSE IF c = 47 THEN 63
    ELSE 64

\* value of a character in the base64 alphabet, 64 when it is not in it
B64Index(c) ==
    IF c >= 65 /\ c <= 90 THEN c - 65
    ELSE IF c >= 97 /\ c <= 122 THEN c - 71
    ELSE IF c >= 48 /\ c <= 57 THEN c + 4
    ELSE IF c = 43 THEN 62
    ELSE IF c = 47 THEN 63
    ELSE 64

\* binascii.a2b_base64, non-strict mode
RECURSIVE A2bBase64(_, _, _, _, _)
A2bBase64(s, quad, left, pads, out) ==
    IF s = <<>>
    THEN IF quad # 0 THEN [ok |-> FALSE, bytes |-> <<>>]
                     ELSE [ok |-> TRUE, bytes |-> out]
    ELSE LET c == Head(s)
             v == B64Index(c)
         IN  IF c = 61
             THEN IF quad >= 2 /\ quad + pads + 1 >= 4
                  THEN [ok |-> TRUE, bytes |-> out]
                  ELSE A2bBase64(Tail(s), quad, left,
                                 IF quad >= 2 THEN pads + 1 ELSE pads, out)
             ELSE IF v >= 64
             THEN A2bBase64(Tail(s), quad, left, pads, out)
             ELSE IF quad = 0
             THEN A2bBase64(Tail(s), 1, v, 0, out)
             ELSE IF quad = 1
             THEN A2bBase64(Tail(s), 2, v % 16, 0,
                            Append(out, left * 4 + (v \div 16)))
             ELSE IF quad = 2
             THEN A2bBase64(Tail(s), 3, v % 4, 0,
                            Append(out, left * 16 + (v \div 4)))
             ELSE A2bBase64(Tail(s), 0, 0, 0, Append(out, left * 64 + v))

\* base64.b64decode(s) for a str s: "value" is the ValueError raised for a
\* non-ASCII string, "binascii" is binascii.Error
B64Decode(s) ==
    IF \E i \in 1..Len(s) : s[i] >= 128
    THEN [err |-> "value", bytes |-> <<>>]
    ELSE LET r == A2bBase64(s, 0, 0, 0, <<>>)
         IN  IF r.ok THEN [err |-> "none", bytes |-> r.bytes]
                     ELSE [err |-> "binascii", bytes |-> <<>>]

IsCont(b) == b >= 128 /\ b <= 191

\* bytes.decode('utf-8'), strict
RECURSIVE Utf8Decode(_, _)
Utf8Decode(b, out) ==
    IF b = <<>> THEN [ok |-> TRUE, text |-> out]
    ELSE LET b1 == b[1]
             n == Len(b)
             bad == [ok |-> FALSE, text |-> <<>>]
         IN  IF b1 < 128 THEN Utf8Decode(Tail(b), Append(out, b1))
             ELSE IF b1 >= 194 /\ b1 <= 223
             THEN IF n >= 2 /\ IsCont(b[2])
                  THEN Utf8Decode(SubSeq(b, 3, n),
                                  Append(out, (b1 - 192) * 64 + (b[2] - 128)))
                  ELSE bad
             ELSE IF b1 >= 224 /\ b1 <= 239
             THEN IF /\ n >= 3 /\ IsCont(b[2]) /\ IsCont(b[3])
                     /\ (b1 = 224 => b[2] >= 160)
                     /\ (b1 = 237 => b[2] <= 159)
                  THEN Utf8Decode(SubSeq(b, 4, n),
                           Append(out, (b1 - 224) * 4096 + (b[2] - 128) * 64
                                       + (b[3] - 128)))
                  ELSE bad
             ELSE IF b1 >= 240 /\ b1 <= 244
             THEN IF /\ n >= 4 /\ IsCont(b[2]) /\ IsCont(b[3]) /\ IsCont(b[4])
                     /\ (b1 = 240 => b[2] >= 144)
                     /\ (b1 = 244 => b[2] <= 143)
                  THEN Utf8Decode(SubSeq(b, 5, n),
                           Append(out, (b1 - 240) * 262144 + (b[2] - 128) * 4096
                                       + (b[3] - 128) * 64 + (b[4] - 128)))
                  ELSE bad
             ELSE bad

\* base64.b64decode(content).decode('utf-8'):
\* err is "none", "value" (ValueError), "binascii" or "unicode"
DecodeContent(s) ==
    LET d == B64Decode(s)
    IN  IF d.err # "none" THEN [err |-> d.err, text |-> <<>>]
        ELSE LET u == Utf8Decode(d.bytes, <<>>)
             IN  IF u.ok THEN [err |-> "none", text |-> u.text]
                         ELSE [err |-> "unicode", text |-> <<>>]

EmptyMap == [p \in {} |-> <<>>]

Put(m, k, v) == [p \in DOMAIN m \cup {k} |-> IF p = k THEN v ELSE m[p]]


----------------------------------------------------------------------------
(* The repository behind the remote API *)

PA == <<"a.txt">>
PE == <<"e">>
PF == <<"e", "/", "f.txt">>
PL == <<"lnk">>
PS == <<"sub">>
PB == <<"sub", "/", "b.txt">>
PD == <<"sub", "/", "d">>
PC == <<"sub", "/", "d", "/", "c.txt">>
PX == <<"x.txt">>

\* every path a repository of the family may hold, in the order of listings
UniverseOrder == <<PA, PE, PL, PS, PB, PD, PC, PF>>
Universe == {UniverseOrder[i] : i \in 1..Len(UniverseOrder)}

Parent(p) == IF Len(p) <= 1 THEN <<>> ELSE SubSeq(p, 1, Len(p) - 2)

NodeType(p) ==
    IF p \in {PS, PD, PE} THEN "dir"
    ELSE IF p = PL THEN "symlink"
    ELSE "file"

\* how the listing API presents a.txt
FileModes == {"url", "inline", "inline_nullurl", "both", "none", "badb64",
              "badutf8", "nonascii", "noencoding", "otherencoding"}

\* the repository of the example: a.txt, sub/b.txt
SmallTree == {PA, PS, PB}

TreeShapes == {{}, {PA}, SmallTree, {PA, PL, PS, PB, PD, PC}, Universe}

\* the repositories tried: every shape, and the example with a.txt presented
\* in every way
Trees == {[nodes |-> N, amode |-> "inline"] : N \in TreeShapes}
         \cup {[nodes |-> SmallTree, amode |-> m] : m \in FileModes}

\* the `path` arguments tried
StartPaths == {<<>>, <<"/">>, <<"/", "sub", "/">>, <<"a.txt">>, <<"nope">>}

Mode(t, p) == IF p = PA THEN t.amode ELSE IF p = PC THEN "both" ELSE "url"

\* the text of a file of the repository
Text(p) == IF p = PA THEN Hello ELSE IF p = PC THEN EAcute ELSE World

\* the base64 form of Text(p), as the listing API sends it
Inline(p) == IF p = PC THEN B64EAcute ELSE B64Hello

Url(p) == <<"raw", "/">> \o p

\* what response.text can be for a download of p: the text, or for non-ASCII
\* bytes served without a charset their ISO-8859-1 reading
RawTexts(p) ==
    IF p = PC THEN {EAcute, EAcuteLatin1}
    ELSE IF p = PX THEN {World}
    ELSE {Text(p)}

\* one object of a listing: keys are the keys the JSON object has
Entry(keys, type, path, url, content, encoding) ==
    [isdict |-> TRUE, keys |-> keys, type |-> type, path |-> path,
     download_url |-> url, content |-> content, encoding |-> encoding]

NoEntry == Entry({}, "", <<>>, <<>>, <<>>, "")
MessageEntry == Entry({"message"}, "", <<>>, <<>>, <<>>, "")
NotAnObject == [NoEntry EXCEPT !.isdict = FALSE]

KUrl == {"type", "path", "download_url"}
KInline == {"type", "path", "content", "encoding"}

FileEntry(p, mode) ==
    CASE mode = "url" -> Entry(KUrl, "file", p, Url(p), <<>>, "")
      [] mode = "inline" -> Entry(KInline, "file", p, <<>>, Inline(p), "base64")
      [] mode = "inline_nullurl" ->
             Entry(KInline \cup KUrl, "file", p, <<>>, Inline(p), "base64")
      [] mode = "both" ->
             Entry(KInline \cup KUrl, "file", p, Url(p), Inline(p), "base64")
      [] mode = "none" -> Entry({"type", "path"}, "file", p, <<>>, <<>>, "")
      [] mode = "badb64" -> Entry(KInline, "file", p, <<>>, B64BadPadding, "base64")
      [] mode = "badutf8" -> Entry(KInline, "file", p, <<>>, B64BadUtf8, "base64")
      [] mode = "nonascii" -> Entry(KInline, "file", p, <<>>, B64NonAscii, "base64")
      [] mode = "noencoding" ->
             Entry({"type", "path", "content"}, "file", p, <<>>, Inline(p), "")
      [] mode = "otherencoding" ->
             Entry(KInline, "file", p, <<>>, Inline(p), "utf-8")

EntryOf(t, p) ==
    IF NodeType(p) = "file" THEN FileEntry(p, Mode(t, p))
    ELSE IF NodeType(p) = "dir" THEN Entry(KUrl, "dir", p, <<>>, <<>>, "")
    ELSE Entry(KUrl, "symlink", p, Url(p), <<>>, "")

RECURSIVE ChildEntries(_, _, _)
ChildEntries(t, d, i) ==
    IF i > Len(UniverseOrder) THEN <<>>
    ELSE LET p == UniverseOrder[i]
         IN  IF p \in t.nodes /\ Parent(p) = d
             THEN <<EntryOf(t, p)>> \o ChildEntries(t, d, i + 1)
             ELSE ChildEntries(t, d, i + 1)

IsDir(t, p) == p = <<>> \/ (p \in t.nodes /\ NodeType(p) = "dir")

ListBody(l) == [kind |-> "list", obj |-> NoEntry, list |-> l]
DictBody(e) == [kind |-> "dict", obj |-> e, list |-> <<>>]
NullBody == [kind |-> "null", obj |-> NoEntry, list |-> <<>>]

\* a response to a listing request; origin tells where the model took it from
\* and is not seen by the program
ListResp(origin, net, status, valid, body) ==
    [origin |-> origin, net |-> net, status |-> status, valid |-> valid,
     body |-> body]

TreeBody(t, p) ==
    IF IsDir(t, p) THEN ListBody(ChildEntries(t, p, 1)) ELSE DictBody(EntryOf(t, p))

\* the contents API's answer for path p of repository t
Faithful(t, p) ==
    IF IsDir(t, p) \/ p \in t.nodes
    THEN ListResp("tree", "ok", 200, TRUE, TreeBody(t, p))
    ELSE ListResp("tree", "ok", 404, TRUE, DictBody(MessageEntry))

\* 2xx answers that do not describe a tree
AdvBodies(p) ==
    { ListBody(<<FileEntry(PX, "url"), FileEntry(PX, "inline")>>),
      ListBody(<<Entry(KUrl, "dir", p, <<>>, <<>>, "")>>),
      ListBody(<<MessageEntry>>),
      ListBody(<<NotAnObject>>),
      ListBody(<<Entry({"type"}, "file", <<>>, <<>>, <<>>, "")>>),
      ListBody(<<Entry({"type"}, "dir", <<>>, <<>>, <<>>, "")>>),
      NullBody }

ErrorStatuses == {401, 403, 404, 500}

\* every answer the remote may give to the listing request of p
ListingResponses(t, p) ==
    {Faithful(t, p)}
    \cup {ListResp("http", "ok", s, TRUE, DictBody(MessageEntry)) : s \in ErrorStatuses}
    \cup {ListResp("transport", "error", 0, FALSE, NullBody),
          ListResp("badjson", "ok", 200, FALSE, NullBody)}
    \cup {ListResp("http300", "ok", 300, TRUE, b) :
             b \in {ListBody(<<>>), DictBody(MessageEntry)}}
    \cup {ListResp("adv", "ok", 200, TRUE, b) : b \in AdvBodies(p)}

DlResp(net, status, text) == [net |-> net, status |-> status, text |-> text]

NoDownload == DlResp("none", 0, <<>>)

\* every answer the remote may give to the download request of file p
DownloadResponses(p) ==
    {DlResp("ok", 200, x) : x \in RawTexts(p)}
    \cup {DlResp("ok", 404, <<>>), DlResp("error", 0, <<>>)}

----------------------------------------------------------------------------
(* The program *)

\* RaiseForStatus raising for 404 alone
RaiseForStatusOnly404(status) == status = 404

\* response.raise_for_status()
RaiseForStatus(status) == status >= 400 /\ status < 600

\* Normalize without the wrapping: the for loop then runs over the keys of
\* the object, which are strings
NormalizeNoWrap(body) ==
    IF body.kind = "dict"
    THEN [i \in 1..Cardinality(body.obj.keys) |-> NotAnObject]
    ELSE body.list

\* if isinstance(items, dict): items = [items]
Normalize(body) == IF body.kind = "dict" THEN <<body.obj>> ELSE body.list

\* lines 44-54: what becomes of a listing response
ListOutcome(resp) ==
    IF resp.net = "error" THEN "transport"
    ELSE IF RaiseForStatus(resp.status) THEN "http"
    ELSE IF ~resp.valid THEN "badjson"
    ELSE IF resp.body.kind = "null" THEN "typeerror"
    ELSE "ok"

\* IsFileType as the complement of the directory test
IsFileTypeNotDir(type) == type # "dir"

\* item['type'] == 'file'
IsFileType(type) == type = "file"

\* HasUrl testing the presence of the key alone
HasUrlKeyOnly(item) == "download_url" \in item.keys

\* 'download_url' in item and item['download_url']
HasUrl(item) == "download_url" \in item.keys /\ item.download_url # <<>>

\* the item is a file entry for which line 62 issues a download request
NeedsDownload(item) ==
    /\ item.isdict /\ "type" \in item.keys /\ IsFileType(item.type)
    /\ "path" \in item.keys /\ HasUrl(item)

Outcome(kind, why, path, text) ==
    [kind |-> kind, why |-> why, path |-> path, text |-> text]

\* lines 59-75: retrieval of a file entry's content, dl being the answer to
\* the download request when one is made
FetchFile(item, dl) ==
    IF HasUrl(item)
    THEN IF dl.net = "error" \/ RaiseForStatus(dl.status)
         THEN Outcome("skip", "download_failed", item.path, <<>>)
         ELSE Outcome("store", "url", item.path, dl.text)
    ELSE IF "content" \in item.keys /\ item.content # <<>>
    THEN IF "encoding" \notin item.keys
         THEN Outcome("keyerror", "encoding", item.path, <<>>)
         ELSE IF item.encoding = "base64"
         THEN LET d == DecodeContent(item.content)
              IN  IF d.err = "none"
                  THEN Outcome("store", "inline", item.path, d.text)
                  ELSE IF d.err = "value"
                  THEN Outcome("valueerror", "decode_failed", item.path, <<>>)
                  ELSE Outcome("skip", "decode_failed", item.path, <<>>)
         ELSE Outcome("skip", "no_source", item.path, <<>>)
    ELSE Outcome("skip", "no_source", item.path, <<>>)

\* IsDirType comparing with another spelling
IsDirTypeDirectory(type) == type = "directory"

\* IsDirType as a plain else branch of the file test
IsDirTypeNotFile(type) == type # "file"

\* item['type'] == 'dir'
IsDirType(type) == type = "dir"

\* lines 55-79: one pass of the for loop
ItemOutcome(item, dl) ==
    IF ~item.isdict THEN Outcome("typeerror", "item", <<>>, <<>>)
    ELSE IF "type" \notin item.keys THEN Outcome("keyerror", "type", <<>>, <<>>)
    ELSE IF IsFileType(item.type)
    THEN IF "path" \notin item.keys THEN Outcome("keyerror", "path", <<>>, <<>>)
         ELSE FetchFile(item, dl)
    ELSE IF IsDirType(item.type)
    THEN IF "path" \notin item.keys THEN Outcome("keyerror", "path", <<>>, <<>>)
         ELSE Outcome("enqueue", "dir", item.path, <<>>)
    ELSE Outcome("ignore", "type", <<>>, <<>>)

\* InitQueue with the deque created once and shared by all calls: a later
\* call finds what the earlier one left
InitQueueShared(path) == IF log = <<>> THEN <<Strip(path)>> ELSE queue

\* queue = deque([path.strip('/')])
InitQueue(path) == <<Strip(path)>>

\* code_files = {}
NewCodeFiles == EmptyMap

\* PopLeft taking the path at the back of the deque
PopRight(q) == [item |-> q[Len(q)], rest |-> SubSeq(q, 1, Len(q) - 1)]

\* current_path = queue.popleft()
PopLeft(q) == [item |-> Head(q), rest |-> Tail(q)]

\* AfterListing with the except clauses going on with the next path
AfterListingContinues(out, its) ==
    IF out = "typeerror" THEN "raised"
    ELSE IF out = "ok" /\ its # <<>> THEN "items"
    ELSE "loop"

\* where control is after a listing request: in the for loop, back at the
\* while test, or out of the function by a return {} or an exception
AfterListing(out, its) ==
    IF out = "ok" THEN (IF its = <<>> THEN "loop" ELSE "items")
    ELSE IF out = "typeerror" THEN "raised"
    ELSE "aborted"

\* RestItems with a failed download tried again
RestItemsRetry(its, o) == IF o.why = "download_failed" THEN its ELSE Tail(its)

\* the for loop moves to the next entry
RestItems(its, o) == Tail(its)

\* AfterItem leaving the for loop once a directory is appended
AfterItemBreaks(rest, o) ==
    IF o.kind \in {"typeerror", "keyerror"} THEN "raised"
    ELSE IF o.kind = "valueerror" THEN "aborted"
    ELSE IF rest = <<>> \/ o.kind = "enqueue" THEN "loop"
    ELSE "items"

\* where control is after one pass of the for loop
AfterItem(rest, o) ==
    IF o.kind \in {"typeerror", "keyerror"} THEN "raised"
    ELSE IF o.kind = "valueerror" THEN "aborted"
    ELSE IF rest = <<>> THEN "loop"
    ELSE "items"

\* code_files[file_path] = text, as a rebinding that drops the other keys
SetItemRebinds(cf, k, v) == [p \in {k} |-> v]

\* code_files[file_path] = text
SetItem(cf, k, v) == Put(cf, k, v)

\* AbortResult handing out what was accumulated
AbortResultKeeps(cf) == cf

\* return {} of the except clauses
AbortResult(cf) == EmptyMap

\* return code_files
DoneResult(cf) == cf

\* the remote's answer to request req, among the candidates
Answers(req, candidates) ==
    IF stable /\ req \in DOMAIN memo THEN {memo[req]} ELSE candidates

Remember(req, resp) == IF stable THEN Put(memo, req, resp) ELSE memo

NoListResp == ListResp("none", "none", 0, FALSE, NullBody)

\* a step of the run: op is "list" (a listing request), "get" (an entry
\* processed with a download request) or "item" (an entry processed without);
\* cls and why are what the program made of it, resp / item / dl what it was
\* given
Event(op, path, cls, why, resp, item, dl) ==
    [op |-> op, path |-> path, cls |-> cls, why |-> why, resp |-> resp,
     item |-> item, dl |-> dl]

Listings == {i \in 1..Len(log) : log[i].op = "list"}

Faults == {i \in Listings : log[i].resp.origin # "tree"}

\* <<path, type>> of the well-formed entries of a listing
ReportedBy(l) ==
    {<<l[i].path, l[i].type>> : i \in {j \in 1..Len(l) :
        l[j].isdict /\ {"type", "path"} \subseteq l[j].keys}}

Init ==
    /\ tree \in Trees
    /\ start \in StartPaths
    /\ stable = FALSE
    /\ memo = EmptyMap
    /\ log = <<>>
    /\ pc = "loop"
    /\ queue = InitQueue(start)
    /\ code_files = NewCodeFiles
    /\ current_path = <<>>
    /\ items = <<>>
    /\ ret = EmptyMap
    /\ reported = {}
    /\ everQueued = {Strip(start)}
    /\ run = 1
    /\ ret1 = [pc |-> "none", ret |-> EmptyMap]

\* lines 36-54 and 81-94: pop a path, list it
ListDir ==
    /\ pc = "loop"
    /\ queue # <<>>
    /\ Cardinality(Listings) < MaxListings
    /\ LET popped == PopLeft(queue).item
       IN  \E resp \in Answers(<<"list", popped>>, ListingResponses(tree, popped)) :
        LET out == ListOutcome(resp)
            its == IF out = "ok" THEN Normalize(resp.body) ELSE <<>>
        IN  /\ resp.origin = "tree" \/ Cardinality(Faults) < MaxFaults
            /\ current_path' = popped
            /\ queue' = PopLeft(queue).rest
            /\ items' = its
            /\ pc' = AfterListing(out, its)
            /\ ret' = AbortResult(code_files)
            /\ memo' = Remember(<<"list", popped>>, resp)
            /\ log' = Append(log, Event("list", popped, out, resp.origin,
                                        resp, NoEntry, NoDownload))
            /\ reported' = reported \cup ReportedBy(its)
    /\ UNCHANGED <<code_files, tree, start, stable, everQueued, run, ret1>>

\* lines 54-79: process the next entry of the listing
ProcessItem ==
    /\ pc = "items"
    /\ items # <<>>
    /\ LET item == Head(items)
           req == <<"get", item.download_url>>
       IN  \E dl \in (IF NeedsDownload(item)
                      THEN Answers(req, DownloadResponses(item.path))
                      ELSE {NoDownload}) :
            LET o == ItemOutcome(item, dl)
            IN  /\ code_files' = IF o.kind = "store"
                                 THEN SetItem(code_files, o.path, o.text)
                                 ELSE code_files
                /\ queue' = IF o.kind = "enqueue" THEN Append(queue, o.path)
                            ELSE queue
                /\ everQueued' = IF o.kind = "enqueue"
                                 THEN everQueued \cup {o.path} ELSE everQueued
                /\ pc' = AfterItem(RestItems(items, o), o)
                /\ items' = RestItems(items, o)
                /\ memo' = IF NeedsDownload(item) THEN Remember(req, dl) ELSE memo
                /\ log' = Append(log, Event(IF NeedsDownload(item) THEN "get" ELSE "item",
                                            o.path, o.kind, o.why, NoListResp,
                                            item, dl))
    /\ ret' = AbortResult(code_files)
    /\ UNCHANGED <<current_path, tree, start, stable, reported, run, ret1>>

\* line 96: the queue is empty
Return ==
    /\ pc = "loop"
    /\ queue = <<>>
    /\ pc' = "done"
    /\ ret' = DoneResult(code_files)
    /\ UNCHANGED <<queue, code_files, current_path, items, tree, start, stable,
                   memo, log, reported, everQueued, run, ret1>>

Next == ListDir \/ ProcessItem \/ Return

Spec == Init /\ [][Next]_vars

\* the caller repeats the call with the same arguments (lines 29-34 again)
Restart ==
    /\ run = 1
    /\ pc \in {"done", "aborted", "raised"}
    /\ run' = 2
    /\ ret1' = [pc |-> pc, ret |-> ret]
    /\ pc' = "loop"
    /\ queue' = InitQueue(start)
    /\ code_files' = NewCodeFiles
    /\ current_path' = <<>>
    /\ items' = <<>>
    /\ ret' = EmptyMap
    /\ log' = <<>>
    /\ reported' = {}
    /\ everQueued' = {Strip(start)}
    /\ UNCHANGED <<tree, start, stable, memo>>

\* two calls against a remote that answers a repeated request as before
InitTwice ==
    /\ tree \in Trees
    /\ start \in StartPaths
    /\ stable = TRUE
    /\ memo = EmptyMap
    /\ log = <<>>
    /\ pc = "loop"
    /\ queue = InitQueue(start)
    /\ code_files = NewCodeFiles
    /\ current_path = <<>>
    /\ items = <<>>
    /\ ret = EmptyMap
    /\ reported = {}
    /\ everQueued = {Strip(start)}
    /\ run = 1
    /\ ret1 = [pc |-> "none", ret |-> EmptyMap]

NextTwice == ListDir \/ ProcessItem \/ Return \/ Restart

SpecTwice == InitTwice /\ [][NextTwice]_vars

----------------------------------------------------------------------------
(* Vocabulary of the properties *)

Range(f) == {f[i] : i \in 1..Len(f)}

\* p lies below directory d (the root being <<>>)
IsUnder(p, d) ==
    \/ d = <<>>
    \/ Len(p) > Len(d) /\ SubSeq(p, 1, Len(d)) = d /\ p[Len(d) + 1] = "/"

\* the file paths of repository t reachable from path s
ReachableFiles(t, s) ==
    IF IsDir(t, s)
    THEN {p \in t.nodes : NodeType(p) = "file" /\ IsUnder(p, s)}
    ELSE IF s \in t.nodes /\ NodeType(s) = "file" THEN {s}
    ELSE {}

\* the response of a listing request is a failure, by the facts of the response
ResponseFailed(r) == r.net = "error" \/ r.status < 200 \/ r.status > 299 \/ ~r.valid

\* the same, the status being a client or server error (4xx, 5xx)
ResponseErrored(r) == r.net = "error" \/ (r.status >= 400 /\ r.status < 600) \/ ~r.valid

\* entry e is a well-formed file entry
IsFileEntry(e) == e.isdict /\ {"type", "path"} \subseteq e.keys /\ e.type = "file"

\* the inline content of entry e is base64 of UTF-8 text
HasValidInline(e) ==
    /\ {"content", "encoding"} \subseteq e.keys
    /\ e.content # <<>>
    /\ e.encoding = "base64"
    /\ DecodeContent(e.content).err = "none"

\* step ev processed a file entry and its retrieval failed at file level:
\* the download failed, or there is no download URL and no valid inline content
FileFailure(ev) ==
    /\ ev.op \in {"get", "item"}
    /\ IsFileEntry(ev.item)
    /\ IF HasUrl(ev.item)
       THEN ev.dl.net = "error" \/ (ev.dl.status >= 400 /\ ev.dl.status < 600)
       ELSE ~HasValidInline(ev.item)

FailedFiles == {log[i].item.path : i \in {j \in 1..Len(log) : FileFailure(log[j])}}

\* every listing request got a 2xx answer describing the repository
ListingsSucceeded ==
    \A i \in Listings : log[i].resp.origin = "tree" /\ ~ResponseFailed(log[i].resp)

\* every listing answer that was processed describes the repository
NoForgedListing ==
    \A i \in Listings : log[i].resp.origin \in {"tree", "http", "transport", "badjson"}

AllSucceeded == ListingsSucceeded /\ FailedFiles = {}

LastEvent == log[Len(log)]

----------------------------------------------------------------------------
(* Properties *)

\* C1: when every listing request and every file retrieval of a run over a
\* repository tree succeeds, the keys of the returned mapping are exactly the
\* file paths reachable from the starting path.
C1_KeysAreReachableFiles ==
    (pc = "done" /\ AllSucceeded) =>
        DOMAIN ret = ReachableFiles(tree, Strip(start))

C1_Witness ==
    /\ pc = "done" /\ AllSucceeded
    /\ tree.nodes = Universe /\ start = <<>>
    /\ DOMAIN ret = {PA, PB, PC, PF}

\* C2 as stated: once a listing request got a failing answer (transport error,
\* any non-2xx status, invalid JSON), a run that returns returns the empty mapping.
C2_Original ==
    (pc \in {"done", "aborted"} /\ \E i \in Listings : ResponseFailed(log[i].resp))
        => ret = EmptyMap

\* C2 amended: a listing answer that is a transport error, a 4xx or 5xx status
\* or invalid JSON aborts the run at once with the empty mapping returned,
\* whatever the result mapping and the queue hold.
C2_ListingErrorAborts ==
    (\E i \in Listings : ResponseErrored(log[i].resp)) =>
        /\ pc = "aborted" /\ ret = EmptyMap
        /\ ResponseErrored(LastEvent.resp)

C2_Witness ==
    /\ pc = "aborted" /\ ret = EmptyMap
    /\ LastEvent.op = "list" /\ LastEvent.resp.status = 401
    /\ code_files # EmptyMap /\ queue # <<>>

\* C3 as stated: the step that meets a file-level failure does not end the run.
C3_Original ==
    (log # <<>> /\ FileFailure(LastEvent)) => pc \in {"loop", "items"}

\* C4 as stated: a returned mapping is empty or has every reachable file
\* (the listings describing the repository).
C4_Original ==
    (pc \in {"done", "aborted"} /\ NoForgedListing) =>
        ret = EmptyMap \/ DOMAIN ret = ReachableFiles(tree, Strip(start))

\* C4 amended: when the listings describe the repository, a returned mapping
\* is empty or has every reachable file but those whose own retrieval failed.
C4_EmptyOrAllRetrieved ==
    (pc \in {"done", "aborted"} /\ NoForgedListing) =>
        \/ ret = EmptyMap
        \/ DOMAIN ret = ReachableFiles(tree, Strip(start)) \ FailedFiles

C4_Witness ==
    /\ pc = "done" /\ NoForgedListing
    /\ FailedFiles # {} /\ ret # EmptyMap
    /\ DOMAIN ret # ReachableFiles(tree, Strip(start))

\* C5 as stated: a run that has ended is Done (queue empty, the accumulated
\* mapping returned) or Aborted (the empty mapping returned).
C5_Original ==
    pc \notin {"loop", "items"} =>
        \/ pc = "done" /\ queue = <<>> /\ ret = code_files
        \/ pc = "aborted" /\ ret = EmptyMap

\* the first listing answer is a single object that is a file entry
SingleFileStart ==
    /\ log # <<>>
    /\ log[1].op = "list" /\ log[1].cls = "ok"
    /\ log[1].resp.body.kind = "dict"
    /\ IsFileEntry(log[1].resp.body.obj)

\* C6 as stated: a start path answered by a single file object gives a
\* returned mapping with exactly that file.
C6_Original ==
    (SingleFileStart /\ pc = "done") =>
        DOMAIN ret = {log[1].resp.body.obj.path}

\* the retrieval of file entry e succeeds under download answer dl
Retrievable(e, dl) ==
    IF HasUrl(e) THEN dl.net = "ok" /\ ~(dl.status >= 400 /\ dl.status < 600)
    ELSE HasValidInline(e)

\* C6 amended: the single object is processed as a one-element listing;
\* after that pass the queue is empty and the mapping holds exactly that file
\* when its retrieval succeeded, and nothing when it failed at file level.
C6_SingleFileStart ==
    (SingleFileStart /\ Len(log) >= 2) =>
        LET e == log[1].resp.body.obj
        IN  /\ queue = <<>> /\ items = <<>>
            /\ log[2].item = e
            /\ Retrievable(e, log[2].dl) => DOMAIN code_files = {e.path}
            /\ FileFailure(log[2]) => code_files = EmptyMap
            /\ pc = "done" /\ Retrievable(e, log[2].dl) => DOMAIN ret = {e.path}
            /\ pc \in {"done", "aborted"} /\ FileFailure(log[2]) => ret = EmptyMap

C6_Witness ==
    /\ SingleFileStart /\ pc = "done"
    /\ DOMAIN ret = {PA} /\ ret[PA] = Hello

\* C7: a second call with the same arguments, against a remote that answers
\* each request as it did before, ends as the first did, with an equal mapping.
C7_RepeatIsEqual ==
    (run = 2 /\ pc \in {"done", "aborted", "raised"}) =>
        /\ ret1.pc = pc
        /\ pc # "raised" => ret = ret1.ret

C7_Witness ==
    /\ run = 2 /\ pc = "done"
    /\ Cardinality(DOMAIN ret) >= 3
    /\ ret = ret1.ret

\* C8: the example tree (a.txt inline "hello", sub/b.txt by download "world"),
\* from the root, all requests succeeding, gives exactly those two entries.
C8_ExampleTree ==
    (/\ pc = "done" /\ AllSucceeded
     /\ tree = [nodes |-> SmallTree, amode |-> "inline"]
     /\ Strip(start) = <<>>)
        => ret = [p \in {PA, PB} |-> IF p = PA THEN Hello ELSE World]

C8_Witness ==
    /\ pc = "done" /\ AllSucceeded
    /\ tree = [nodes |-> SmallTree, amode |-> "inline"]
    /\ start = <<>>
    /\ DOMAIN ret = {PA, PB}

\* C9 as stated: every path in the queue, or ever in it, was reported by a
\* listing of this run as a directory.
C9_Original ==
    \A p \in everQueued \cup Range(queue) : <<p, "dir">> \in reported

\* C9 amended: every path in the queue, or ever in it, is the normalized
\* starting path or was reported by a listing of this run as a directory.
C9_QueuedWereDirs ==
    \A p \in everQueued \cup Range(queue) :
        p = Strip(start) \/ <<p, "dir">> \in reported

C9_Witness ==
    /\ PD \in Range(queue) /\ PE \in everQueued
    /\ <<PL, "symlink">> \in reported

\* C10 as stated: while draining, no key of the result mapping is removed
\* and no value changes.
C10_OriginalStep ==
    pc \in {"loop", "items"} =>
        \A k \in DOMAIN code_files :
            k \in DOMAIN code_files' /\ code_files'[k] = code_files[k]

C10_Original == [][C10_OriginalStep]_vars

\* C10 amended: while draining, no key of the result mapping is removed, and
\* a value changes only by the retrieval of a later file entry of the same
\* path; when the listings describe a repository tree no value changes.
C10_Step ==
    pc \in {"loop", "items"} =>
        \A k \in DOMAIN code_files :
            /\ k \in DOMAIN code_files'
            /\ code_files'[k] # code_files[k] =>
                 /\ pc = "items" /\ IsFileEntry(Head(items))
                 /\ Head(items).path = k
                 /\ ~NoForgedListing

C10_KeysOnlyGrow == [][C10_Step]_vars

C10_Witness ==
    /\ pc \in {"loop", "items"}
    /\ PX \in DOMAIN code_files /\ code_files[PX] = Hello
    /\ \E i \in 1..Len(log) :
          log[i].cls = "store" /\ log[i].path = PX /\ log[i].dl.text = World
    /\ Cardinality(DOMAIN code_files) >= 2

----------------------------------------------------------------------------
(* Vocabulary of the properties on the order of the requests *)

PathsOf(evs) == [i \in 1..Len(evs) |-> evs[i].path]

\* entry e is a well-formed directory entry
IsDirEntry(e) == e.isdict /\ {"type", "path"} \subseteq e.keys /\ e.type = "dir"

\* entry e carries a non-empty download URL
CarriesUrl(e) == "download_url" \in e.keys /\ e.download_url # <<>>

IsListEvent(ev) == ev.op = "list"
IsDirEvent(ev) == ev.op # "list" /\ IsDirEntry(ev.item)

\* the paths listed, in the order of the listing requests
ListedSeq == PathsOf(SelectSeq(log, IsListEvent))

\* the paths put in the queue, in the order they were put there
EnqueuedSeq == <<Strip(start)>> \o PathsOf(SelectSeq(log, IsDirEvent))

\* number of separators of a path
Depth(p) == Cardinality({i \in 1..Len(p) : p[i] = "/"})

\* the entries of a listing body, a single object counting as one entry
BodyEntries(body) == IF body.kind = "dict" THEN <<body.obj>> ELSE body.list

\* the listing step whose pass step i belongs to
PassOf(i) == CHOOSE l \in Listings : l <= i /\ \A m \in Listings : m <= i => m <= l

\* the download answer dl is a failure
DownloadFailed(dl) == dl.net = "error" \/ (dl.status >= 400 /\ dl.status < 600)

\* the last step that stored a value for key k
LastStore(k) ==
    CHOOSE i \in 1..Len(log) :
        /\ log[i].cls = "store" /\ log[i].path = k
        /\ \A j \in 1..Len(log) : log[j].cls = "store" /\ log[j].path = k => j <= i

----------------------------------------------------------------------------
(* Properties on the order of the requests *)

\* C11: a listing request that fails by a transport error, a 4xx or 5xx
\* status or invalid JSON is the last step of its run: no listing request and
\* no download request follows it, and the queue keeps what was waiting.
C11_AbortIsImmediate ==
    \A i \in Listings :
        ResponseErrored(log[i].resp) =>
            /\ i = Len(log)
            /\ pc = "aborted"
            /\ ListedSeq \o queue = EnqueuedSeq
            /\ ~ENABLED Next

C11_Witness ==
    /\ log # <<>> /\ LastEvent.op = "list" /\ ResponseErrored(LastEvent.resp)
    /\ queue # <<>>
    /\ Len(ListedSeq) >= 2
    /\ code_files # EmptyMap

\* C12: the listing requests follow the order in which the paths were put in
\* the queue; when the listings describe a tree, no directory is listed before
\* a directory nearer to the starting path.
C12_FifoOrder ==
    /\ ListedSeq \o queue = EnqueuedSeq
    /\ (\A i \in Listings : log[i].resp.origin # "adv") =>
          \A i, j \in 1..Len(ListedSeq) :
              i < j => Depth(ListedSeq[i]) <= Depth(ListedSeq[j])

C12_Witness ==
    /\ ListedSeq = <<<<>>, PE, PS, PD>>
    /\ ListingsSucceeded

\* C13: a value of the result mapping is the response text of the download
\* when the entry that set it carried a non-empty download URL, and the UTF-8
\* decoding of its base64 content otherwise; a file entry is processed with a
\* download request exactly when it carries a non-empty download URL.
C13_SourcePriority ==
    /\ \A k \in DOMAIN code_files :
          /\ \E i \in 1..Len(log) : log[i].cls = "store" /\ log[i].path = k
          /\ LET ev == log[LastStore(k)]
             IN  /\ IsFileEntry(ev.item)
                 /\ code_files[k] = IF CarriesUrl(ev.item) THEN ev.dl.text
                                    ELSE DecodeContent(ev.item.content).text
                 /\ CarriesUrl(ev.item) => ev.dl.net = "ok"
                 /\ ~CarriesUrl(ev.item) => HasValidInline(ev.item)
    /\ \A i \in 1..Len(log) :
          (log[i].op # "list" /\ IsFileEntry(log[i].item)) =>
              /\ (log[i].op = "get") = CarriesUrl(log[i].item)
              /\ (log[i].dl = NoDownload) = ~CarriesUrl(log[i].item)
    /\ pc = "done" => ret = code_files

C13_Witness ==
    /\ pc = "done"
    /\ {PA, PB, PC} \subseteq DOMAIN ret
    /\ ret[PC] = EAcuteLatin1
    /\ DecodeContent(Inline(PC)).text = EAcute
    /\ ret[PA] = Hello
    /\ \E i \in 1..Len(log) : log[i].path = PA /\ log[i].op = "item"

\* C14 as stated: a file entry with a download URL and valid base64 content
\* whose download fails is in the result, with its inline content.
C14_Original ==
    (/\ log # <<>> /\ LastEvent.op # "list"
     /\ IsFileEntry(LastEvent.item) /\ CarriesUrl(LastEvent.item)
     /\ HasValidInline(LastEvent.item)
     /\ DownloadFailed(LastEvent.dl)) =>
        /\ LastEvent.item.path \in DOMAIN code_files
        /\ code_files[LastEvent.item.path]
               = DecodeContent(LastEvent.item.content).text

\* C15: every key of the result mapping was reported by a listing of this
\* run as an entry of type file.
C15_KeysWereFiles ==
    /\ \A k \in DOMAIN code_files : <<k, "file">> \in reported
    /\ \A k \in DOMAIN ret : <<k, "file">> \in reported

C15_Witness ==
    /\ pc = "done"
    /\ {PA, PB} \subseteq DOMAIN ret
    /\ {<<PL, "symlink">>, <<PS, "dir">>} \subseteq reported

\* the entry at the head of items has a type that is neither file nor dir
OtherTypeNext ==
    /\ pc = "items" /\ items # <<>>
    /\ Head(items).isdict /\ "type" \in Head(items).keys
    /\ Head(items).type \notin {"file", "dir"}

C16_Step ==
    OtherTypeNext =>
        /\ queue' = queue /\ code_files' = code_files /\ memo' = memo
        /\ items' = Tail(items)
        /\ pc' = IF Tail(items) = <<>> THEN "loop" ELSE "items"
        /\ Len(log') = Len(log) + 1
        /\ log'[Len(log')].op = "item" /\ log'[Len(log')].dl = NoDownload

\* C16: processing an entry whose type is neither file nor dir leaves the
\* queue and the result mapping as they are, issues no request, and the run
\* goes on with the next entry.
C16_OtherTypeIgnored == [][C16_Step]_vars

C16_Witness ==
    /\ log # <<>> /\ LastEvent.op = "item"
    /\ LastEvent.item.type = "symlink"
    /\ pc = "items" /\ IsDirEntry(Head(items))
    /\ code_files # EmptyMap

\* number of steps of the pass of listing l that requested url u
GetsOf(l, u) ==
    Cardinality({i \in 1..Len(log) :
        log[i].op = "get" /\ PassOf(i) = l /\ log[i].item.download_url = u})

\* number of file entries of listing l that carry url u
EntriesWith(l, u) ==
    LET es == BodyEntries(log[l].resp.body)
    IN  Cardinality({j \in 1..Len(es) :
            IsFileEntry(es[j]) /\ CarriesUrl(es[j]) /\ es[j].download_url = u})

\* C17: there are as many listing requests as paths taken from the queue, and
\* the pass of a listing holds, for each download URL, no more download
\* requests than the listing has file entries with that URL.
C17_NoRetry ==
    /\ Cardinality(Listings) = Len(EnqueuedSeq) - Len(queue)
    /\ \A i \in 1..Len(log) :
          log[i].op = "get" =>
              GetsOf(PassOf(i), log[i].item.download_url)
                  <= EntriesWith(PassOf(i), log[i].item.download_url)
    /\ \A i \in 1..Len(log) :
          (log[i].op = "get" /\ DownloadFailed(log[i].dl) /\ i < Len(log)) =>
              log[i + 1].op = "list" \/ log[i + 1].item # log[i].item

C17_Witness ==
    /\ pc = "done"
    /\ \E i \in 1..Len(log) :
          /\ log[i].op = "get" /\ DownloadFailed(log[i].dl) /\ log[i].path = PB
          /\ i < Len(log)
    /\ Cardinality(Listings) >= 3

\* C18: the steps between a listing request and the next one process the
\* entries of that listing, one by one in their order, a request being made
\* for the file entries with a download URL alone; the next listing request
\* comes when all of them are processed, so after every directory they hold
\* was put in the queue.
C18_PassBeforeNextListing ==
    /\ \A i \in 1..Len(log) :
          log[i].op # "list" =>
              LET l == PassOf(i)
                  es == BodyEntries(log[l].resp.body)
              IN  /\ i - l <= Len(es)
                  /\ log[i].item = es[i - l]
                  /\ log[i].op = "get" =>
                        IsFileEntry(log[i].item) /\ CarriesUrl(log[i].item)
    /\ \A j \in Listings :
          j > 1 =>
              LET l == PassOf(j - 1)
              IN  (j - 1) - l = Len(BodyEntries(log[l].resp.body))
    /\ pc = "items" => items # <<>>

C18_Witness ==
    /\ ListedSeq = <<<<>>, PE, PS>>
    /\ pc = "items" /\ Len(items) = 1 /\ IsDirEntry(Head(items))
    /\ PB \in DOMAIN code_files

\* the directories of repository t reachable from path s, s included
ReachableDirs(t, s) ==
    IF IsDir(t, s)
    THEN {s} \cup {p \in t.nodes : NodeType(p) = "dir" /\ IsUnder(p, s)}
    ELSE {}

\* C19 as stated: over a repository tree the run does not stop before it is
\* Done or Aborted, lists no directory twice, and has listed every reachable
\* directory when it is Done.
C19_Original ==
    (\A i \in Listings : log[i].resp.origin \in {"tree", "http", "transport", "badjson"}) =>
        /\ pc \in {"done", "aborted"} \/ ENABLED Next
        /\ \A i, j \in 1..Len(ListedSeq) : ListedSeq[i] = ListedSeq[j] => i = j
        /\ (pc = "done" /\ ListingsSucceeded) =>
              ReachableDirs(tree, Strip(start)) \subseteq Range(ListedSeq)

====
